---- MODULE Spec2Model ----
(***************************************************************************)
(* TrackGold: the analysis job orchestrator of src/app.py.                 *)
(*                                                                         *)
(* The web application keeps one process-wide status record                *)
(* (analysis_status).  POST /api/start-analysis (start_analysis) checks    *)
(* its 'running' flag, replaces the record and starts a daemon thread that *)
(* runs run_analysis_async, which updates the record field by field.       *)
(* The Flask development server serves every request on its own thread     *)
(* and the code takes no lock, so the model interleaves the handlers and   *)
(* the workers at the granularity of one Python statement that touches     *)
(* the shared record.  Worker program counters are named after the source  *)
(* line of src/app.py that the worker executes next.                       *)
(***************************************************************************)
EXTENDS Integers, FiniteSets, Sequences, TLC

\* ---------------------------------------------------------------- bounds
\* Number of POST /api/start-analysis requests made in one behaviour.  Each
\* request is served on a thread of its own and runs start_analysis once.
MaxRequests == 2

Requests == 1..MaxRequests

\* Number of runs (of the web application or of main.py) that get as far as
\* saving a report, and the seconds the clock goes through.
MaxSavers == 3
MaxTime == 3

Savers == 1..MaxSavers

\* ------------------------------------------------------------- constants
\* Python's None.
None == "None"

\* The text the pipeline of the worker started by request r returns (str(result)).
ReportText(r) == "report " \o ToString(r)

\* str(e) of what gold_crew.kickoff() raises / of what makedirs, open or write raises.
PipelineError == "pipeline failed"
WriteError == "cannot write report"

\* The 'message' of the accept response and the 'error' of the reject response.
Started == "Analysis started"
AlreadyRunning == "Analysis already running"

VARIABLES
    status,     \* the global analysis_status dict
    pc,         \* pc[r]: where the thread serving request r is inside start_analysis
    resp,       \* resp[r]: the response request r got
    seen,       \* seen[r]: how many runs had been accepted when r passed the running test
    workers,    \* workers[r]: program counter and locals of the thread request r started
    runs,       \* number of times start_analysis replaced the record
    snapshot,   \* <<body>> of the last GET /api/analysis-status response, <<>> before any
    \* GET /api/gold-price (api_gold_price and get_current_gold_price)
    ppc,        \* where the thread serving the current price request is
    fresh,      \* whether that request came within the cache ttl of the one before
    idx,        \* get_current_gold_price: position of source_func in sources
    calls,      \* get_current_gold_price: what each source_func() called so far did
    price_data, \* api_gold_price: what get_current_gold_price returned
    response,   \* <<body>> of the last GET /api/gold-price response, <<>> before any
    served,     \* number of price requests answered
    invocations,\* number of times get_current_gold_price was entered
    fetched,    \* <<price>> of the last price a source delivered, <<>> before any
    \* get_technical_signals (src/tools/technical_tool.py), locals of the last call
    sma_10,     \* df['SMA_10'].iloc[-1].item()
    sma_50,     \* df['SMA_50'].iloc[-1].item()
    rsi,        \* df['RSI'].iloc[-1].item()
    signal,     \* the signal the call determined, None before any call
    attempt,    \* the loop variable of for attempt in range(MAX_RETRIES)
    downloads,  \* number of yf.download calls the call has made
    returned,   \* what the call returned, None while it runs
    \* scrape_fundamental_news (src/tools/fundamental_tool.py), one call
    fetches,    \* what the requests to the news sources did, in the order made
    headlines,  \* the list headlines
    news,       \* <<what the call returned>>, <<>> while it runs
    \* the reports directory (run_analysis_async and save_report of src/main.py)
    now,        \* datetime.now(), in whole seconds
    filename,   \* filename[k]: <<name run k wrote its report to>>, <<>> before
    reports     \* reports[t]: the runs that wrote reports/gold_analysis_<t>.md, in order

vars == <<status, pc, resp, seen, workers, runs>>

priceVars == <<ppc, fresh, idx, calls, price_data, response, served, invocations, fetched>>

signalVars == <<sma_10, sma_50, rsi, signal, attempt, downloads, returned>>

\* What start_analysis and run_analysis_async neither read nor write.
newsVars == <<fetches, headlines, news>>

reportVars == <<now, filename, reports>>

\* What start_analysis and run_analysis_async neither read nor write.
notOrch == <<snapshot, priceVars, signalVars, newsVars, reportVars>>

\* ------------------------------------------------------------------ state
\* analysis_status as the module sets it at import time.
InitialStatus ==
    [running |-> FALSE, progress |-> 0, message |-> "", result |-> None, error |-> None]

\* The dict literal start_analysis binds to analysis_status.
FreshStatus ==
    [running |-> TRUE, progress |-> 0, message |-> "Starting analysis...",
     result |-> None, error |-> None]

\* The worker thread of a request that has not started one.
Unborn == [pc |-> "unborn", gold_data |-> None, result |-> None, e |-> None]

\* Worker thread w has been started and has not finished.
Alive(w) == workers[w].pc \notin {"unborn", "done"}

\* No price request has been made.  The module keeps no price state at all:
\* everything below is local to one request, or history kept for the claims.
PriceInit ==
    /\ ppc = "idle"
    /\ fresh = FALSE
    /\ idx = 0
    /\ calls = <<>>
    /\ price_data = [source |-> "(unbound)"]
    /\ response = <<>>
    /\ served = 0
    /\ invocations = 0
    /\ fetched = <<>>

\* get_technical_signals has not been called.
SignalInit ==
    /\ sma_10 = 0 /\ sma_50 = 0 /\ rsi = 0 /\ signal = None
    /\ attempt = 0 /\ downloads = 0 /\ returned = None

\* The record as the module creates it; no request has been made.
StatusInit ==
    /\ status = InitialStatus
    /\ pc = [r \in Requests |-> "idle"]
    /\ resp = [r \in Requests |-> "none"]
    /\ seen = [r \in Requests |-> 0]
    /\ workers = [r \in Requests |-> Unborn]
    /\ runs = 0
    /\ snapshot = <<>>

\* scrape_fundamental_news is entered: headlines = [].
NewsInit == fetches = <<>> /\ headlines = <<>> /\ news = <<>>

\* No run has saved a report.
ReportInit ==
    /\ now = 0
    /\ filename = [k \in Savers |-> <<>>]
    /\ reports = [t \in 0..MaxTime |-> <<>>]

Init ==
    /\ PriceInit
    /\ SignalInit
    /\ NewsInit
    /\ ReportInit
    /\ StatusInit

\* ---------------------------------------------------------- start_analysis
\* Mutant of StartRejected: the rejection is also written into the record.
StartRejectedRecordsError(r) ==
    /\ pc[r] = "idle"
    /\ status.running
    /\ status' = [status EXCEPT !.error = AlreadyRunning]
    /\ resp' = [resp EXCEPT ![r] = AlreadyRunning]
    /\ pc' = [pc EXCEPT ![r] = "returned"]
    /\ UNCHANGED <<seen, workers, runs, notOrch>>

\* if analysis_status['running']: return 400 'Analysis already running'
StartRejected(r) ==
    /\ pc[r] = "idle"
    /\ status.running
    /\ resp' = [resp EXCEPT ![r] = AlreadyRunning]
    /\ pc' = [pc EXCEPT ![r] = "returned"]
    /\ UNCHANGED <<status, seen, workers, runs, notOrch>>

\* The same test finding running false: the handler goes on to line 341.
StartCheckPassed(r) ==
    /\ pc[r] = "idle"
    /\ ~status.running
    /\ pc' = [pc EXCEPT ![r] = "checked"]
    /\ seen' = [seen EXCEPT ![r] = runs]
    /\ UNCHANGED <<status, resp, workers, runs, notOrch>>

\* Mutant of StartReset: the record is updated in place, result and error
\* of the previous run are left as they are.
StartResetInPlace(r) ==
    /\ pc[r] = "checked"
    /\ status' = [status EXCEPT !.running = TRUE, !.progress = 0,
                                 !.message = "Starting analysis..."]
    /\ runs' = runs + 1
    /\ pc' = [pc EXCEPT ![r] = "reset"]
    /\ UNCHANGED <<resp, seen, workers, notOrch>>

\* analysis_status = {'running': True, 'progress': 0, ...}
StartReset(r) ==
    /\ pc[r] = "checked"
    /\ status' = FreshStatus
    /\ runs' = runs + 1
    /\ pc' = [pc EXCEPT ![r] = "reset"]
    /\ UNCHANGED <<resp, seen, workers, notOrch>>

\* thread = threading.Thread(target=run_analysis_async); thread.start()
StartThread(r) ==
    /\ pc[r] = "reset"
    /\ workers' = [workers EXCEPT ![r] = [Unborn EXCEPT !.pc = "L246"]]
    /\ pc' = [pc EXCEPT ![r] = "threadstarted"]
    /\ UNCHANGED <<status, resp, seen, runs, notOrch>>

\* return jsonify({'success': True, 'message': 'Analysis started'})
StartReturn(r) ==
    /\ pc[r] = "threadstarted"
    /\ resp' = [resp EXCEPT ![r] = Started]
    /\ pc' = [pc EXCEPT ![r] = "returned"]
    /\ UNCHANGED <<status, seen, workers, runs, notOrch>>

\* ------------------------------------------------------ run_analysis_async
\* analysis_status['running'] = True
SetRunning(w) ==
    /\ workers[w].pc = "L246"
    /\ status' = [status EXCEPT !.running = TRUE]
    /\ workers' = [workers EXCEPT ![w].pc = "L247"]
    /\ UNCHANGED <<pc, resp, seen, runs, notOrch>>

\* analysis_status['progress'] = 10
SetProgress10(w) ==
    /\ workers[w].pc = "L247"
    /\ status' = [status EXCEPT !.progress = 10]
    /\ workers' = [workers EXCEPT ![w].pc = "L248"]
    /\ UNCHANGED <<pc, resp, seen, runs, notOrch>>

\* analysis_status['message'] = 'Initializing analysis...'
SetMessageInit(w) ==
    /\ workers[w].pc = "L248"
    /\ status' = [status EXCEPT !.message = "Initializing analysis..."]
    /\ workers' = [workers EXCEPT ![w].pc = "L249"]
    /\ UNCHANGED <<pc, resp, seen, runs, notOrch>>

\* analysis_status['error'] = None; gold_crew = GoldTrackerCrew()
ClearError(w) ==
    /\ workers[w].pc = "L249"
    /\ status' = [status EXCEPT !.error = None]
    /\ workers' = [workers EXCEPT ![w].pc = "L253"]
    /\ UNCHANGED <<pc, resp, seen, runs, notOrch>>

\* analysis_status['progress'] = 30
SetProgress30(w) ==
    /\ workers[w].pc = "L253"
    /\ status' = [status EXCEPT !.progress = 30]
    /\ workers' = [workers EXCEPT ![w].pc = "L254"]
    /\ UNCHANGED <<pc, resp, seen, runs, notOrch>>

\* analysis_status['message'] = 'Fetching technical indicators...'
SetMessageFetch(w) ==
    /\ workers[w].pc = "L254"
    /\ status' = [status EXCEPT !.message = "Fetching technical indicators..."]
    /\ workers' = [workers EXCEPT ![w].pc = "L256"]
    /\ UNCHANGED <<pc, resp, seen, runs, notOrch>>

\* kickoff(): gold_data = self.fetch_gold_data(), the download giving rows.
FetchGoldDataLive(w) ==
    /\ workers[w].pc = "L256"
    /\ workers' = [workers EXCEPT ![w].pc = "K204", ![w].gold_data = "live"]
    /\ UNCHANGED <<status, pc, resp, seen, runs, notOrch>>

\* Mutant of FetchGoldDataFallback: fetch_gold_data lets the failure out, which
\* leaves kickoff and reaches the except clause of run_analysis_async.
FetchGoldDataPropagates(w) ==
    /\ workers[w].pc = "L256"
    /\ workers' = [workers EXCEPT ![w].pc = "L274", ![w].e = PipelineError]
    /\ UNCHANGED <<status, pc, resp, seen, runs, notOrch>>

\* kickoff(): gold_data = self.fetch_gold_data(), the download failing (an
\* exception, or an empty frame turned into ValueError): the except clause of
\* fetch_gold_data returns the hard-coded fallback dict and kickoff goes on.
FetchGoldDataFallback(w) ==
    /\ workers[w].pc = "L256"
    /\ workers' = [workers EXCEPT ![w].pc = "K204", ![w].gold_data = "fallback"]
    /\ UNCHANGED <<status, pc, resp, seen, runs, notOrch>>

\* kickoff(): agents, tasks and crew are built and crew.kickoff() returns the
\* synthesized text; result = gold_crew.kickoff() in run_analysis_async.
KickoffReturns(w) ==
    /\ workers[w].pc = "K204"
    /\ workers' = [workers EXCEPT ![w].pc = "L258", ![w].gold_data = None,
                                  ![w].result = ReportText(w)]
    /\ UNCHANGED <<status, pc, resp, seen, runs, notOrch>>

\* kickoff(): building an agent or a task, or crew.kickoff(), raises: control
\* leaves kickoff and goes to the except clause of run_analysis_async.
KickoffRaises(w) ==
    /\ workers[w].pc = "K204"
    /\ workers' = [workers EXCEPT ![w].pc = "L274", ![w].gold_data = None,
                                  ![w].e = PipelineError]
    /\ UNCHANGED <<status, pc, resp, seen, runs, notOrch>>

\* analysis_status['progress'] = 100
SetProgress100(w) ==
    /\ workers[w].pc = "L258"
    /\ status' = [status EXCEPT !.progress = 100]
    /\ workers' = [workers EXCEPT ![w].pc = "L259"]
    /\ UNCHANGED <<pc, resp, seen, runs, notOrch>>

\* analysis_status['message'] = 'Analysis complete!'
SetMessageComplete(w) ==
    /\ workers[w].pc = "L259"
    /\ status' = [status EXCEPT !.message = "Analysis complete!"]
    /\ workers' = [workers EXCEPT ![w].pc = "L260"]
    /\ UNCHANGED <<pc, resp, seen, runs, notOrch>>

\* analysis_status['result'] = str(result)
SetResult(w) ==
    /\ workers[w].pc = "L260"
    /\ status' = [status EXCEPT !.result = workers[w].result]
    /\ workers' = [workers EXCEPT ![w].pc = "L263"]
    /\ UNCHANGED <<pc, resp, seen, runs, notOrch>>

\* os.makedirs / open / f.write all succeed: control goes to the finally clause
SaveReportOk(w) ==
    /\ workers[w].pc = "L263"
    /\ workers' = [workers EXCEPT ![w].pc = "L277"]
    /\ UNCHANGED <<status, pc, resp, seen, runs, notOrch>>

\* os.makedirs, open or f.write raises: control goes to the except clause
SaveReportRaises(w) ==
    /\ workers[w].pc = "L263"
    /\ workers' = [workers EXCEPT ![w].pc = "L274", ![w].e = WriteError]
    /\ UNCHANGED <<status, pc, resp, seen, runs, notOrch>>

\* except Exception as e: analysis_status['error'] = str(e)
SetError(w) ==
    /\ workers[w].pc = "L274"
    /\ status' = [status EXCEPT !.error = workers[w].e]
    /\ workers' = [workers EXCEPT ![w].pc = "L275"]
    /\ UNCHANGED <<pc, resp, seen, runs, notOrch>>

\* analysis_status['message'] = f'Error: {str(e)}'
SetMessageError(w) ==
    /\ workers[w].pc = "L275"
    /\ status' = [status EXCEPT !.message = "Error: " \o workers[w].e]
    /\ workers' = [workers EXCEPT ![w].pc = "L277"]
    /\ UNCHANGED <<pc, resp, seen, runs, notOrch>>

\* Mutant of Finally: running is cleared at the end of the try body only, so
\* a worker that went through the except clause leaves it set.
FinallyOnSuccessOnly(w) ==
    /\ workers[w].pc = "L277"
    /\ status' = [status EXCEPT !.running = status.running /\ workers[w].e # None]
    /\ workers' = [workers EXCEPT ![w].pc = "done"]
    /\ UNCHANGED <<pc, resp, seen, runs, notOrch>>

\* finally: analysis_status['running'] = False
Finally(w) ==
    /\ workers[w].pc = "L277"
    /\ status' = [status EXCEPT !.running = FALSE]
    /\ workers' = [workers EXCEPT ![w].pc = "done"]
    /\ UNCHANGED <<pc, resp, seen, runs, notOrch>>

\* Any step of worker thread w.
run_analysis_async(w) ==
    \/ SetRunning(w)
    \/ SetProgress10(w)
    \/ SetMessageInit(w)
    \/ ClearError(w)
    \/ SetProgress30(w)
    \/ SetMessageFetch(w)
    \/ FetchGoldDataLive(w)
    \/ FetchGoldDataFallback(w)
    \/ KickoffReturns(w)
    \/ KickoffRaises(w)
    \/ SetProgress100(w)
    \/ SetMessageComplete(w)
    \/ SetResult(w)
    \/ SaveReportOk(w)
    \/ SaveReportRaises(w)
    \/ SetError(w)
    \/ SetMessageError(w)
    \/ Finally(w)

\* The part of start_analysis that follows the test of the running flag.
StartContinues(r) == StartReset(r) \/ StartThread(r) \/ StartReturn(r)

Next ==
    \/ \E r \in Requests : StartRejected(r)
    \/ \E r \in Requests : StartCheckPassed(r)
    \/ \E r \in Requests : StartReset(r)
    \/ \E r \in Requests : StartThread(r)
    \/ \E r \in Requests : StartReturn(r)
    \/ \E w \in Requests : run_analysis_async(w)

Spec == Init /\ [][Next]_vars

\* Threads are scheduled fairly: a started worker keeps executing, the crew
\* pipeline call returns or raises, and a handler past its test runs to its
\* return.  Nothing obliges a client to send a request.
FairSpec ==
    /\ Spec
    /\ \A w \in Requests : WF_vars(run_analysis_async(w))
    /\ \A r \in Requests : WF_vars(StartContinues(r))

\* ------------------------------------------------------ get_analysis_status
\* return jsonify(analysis_status)
get_analysis_status ==
    /\ snapshot' = <<status>>
    /\ UNCHANGED <<vars, priceVars, signalVars, newsVars, reportVars>>

\* The orchestrator together with clients that poll the status.
ReadNext == Next \/ get_analysis_status

ReadSpec == Init /\ [][ReadNext]_<<vars, snapshot, signalVars, newsVars, reportVars>>

\* ------------------------------------------------- get_current_gold_price
\* Number of GET /api/gold-price requests made in one behaviour.
MaxPriceRequests == 2

\* sources, in the order of the list literal, by the 'source' each one reports.
sources ==
    <<"Investing.com", "Kitco (scraped)", "GoldAPI", "MetalsAPI", "Yahoo Finance (Futures)">>

\* The price, in cents, source i delivers when it works (one per source, so
\* that a record tells which source it came from).
SourcePrice(i) == 265000 + 100 * i

\* What a call source_func() can do, for a source_func in general: return
\* None, return a dict with a positive, zero or negative price, return a dict
\* that lacks 'price', or raise.
SourceResults(i) ==
    {[kind |-> "None"], [kind |-> "raise"],
     [kind |-> "dict", has_price |-> FALSE, source |-> sources[i]]}
    \cup {[kind |-> "dict", has_price |-> TRUE, price |-> p, source |-> sources[i]] :
             p \in {SourcePrice(i), 0, -100}}

\* bool(result): None is false, a non-empty dict is true.
Truthy(result) == result.kind = "dict"

\* Mutant of Accepted: the price is not compared with 0.
AcceptedAnyPrice(result) == Truthy(result) /\ result.has_price

\* if result and result['price'] > 0, for a result whose test does not raise.
Accepted(result) == Truthy(result) /\ result.has_price /\ result.price > 0

\* result['price'] raises KeyError.
TestRaises(result) == Truthy(result) /\ ~result.has_price

\* 4267.00, in cents.
FallbackPrice == 426700

\* Mutant of Fallback: the record is not marked as cached.
FallbackUnmarked == [price |-> FallbackPrice, source |-> "Cached (API unavailable)"]

\* Mutant of Fallback: the price is the last one a source delivered, if any.
FallbackLastFetched ==
    [price |-> IF fetched = <<>> THEN FallbackPrice ELSE fetched[1],
     source |-> "Cached (API unavailable)", is_cached |-> TRUE]

\* The dict of the ultimate fallback.
Fallback ==
    [price |-> FallbackPrice, source |-> "Cached (API unavailable)", is_cached |-> TRUE]

\* price_data.get('is_cached', False)
IsCached(rec) == IF "is_cached" \in DOMAIN rec THEN rec.is_cached ELSE FALSE

\* Mutant of ApiGoldPriceEnter: a request that comes within the ttl of an
\* answered one reuses its price and does not enter get_current_gold_price.
ApiGoldPriceEnterCached ==
    /\ ppc = "idle"
    /\ served < MaxPriceRequests
    /\ \E f \in BOOLEAN :
        /\ fresh' = (f /\ served > 0)
        /\ IF fresh' /\ response # <<>>
              THEN /\ ppc' = "history"
                   /\ price_data' = [price |-> response[1].price,
                                     source |-> response[1].source]
                   /\ UNCHANGED <<idx, calls, invocations>>
              ELSE /\ ppc' = "chain"
                   /\ idx' = 1
                   /\ calls' = <<>>
                   /\ price_data' = [source |-> "(unbound)"]
                   /\ invocations' = invocations + 1
    /\ UNCHANGED <<response, served, fetched, vars, snapshot, signalVars, newsVars, reportVars>>

\* api_gold_price is entered and calls get_current_gold_price(), which starts
\* its loop over sources.  Nothing is looked up: there is no cache.
ApiGoldPriceEnter ==
    /\ ppc = "idle"
    /\ served < MaxPriceRequests
    /\ \E f \in BOOLEAN : fresh' = (f /\ served > 0)
    /\ ppc' = "chain"
    /\ idx' = 1
    /\ calls' = <<>>
    /\ price_data' = [source |-> "(unbound)"]
    /\ invocations' = invocations + 1
    /\ UNCHANGED <<response, served, fetched, vars, snapshot, signalVars, newsVars, reportVars>>

\* One iteration: source_func() returns a result the test accepts, and
\* get_current_gold_price returns it.
SourceAccepted ==
    /\ ppc = "chain"
    /\ idx <= Len(sources)
    /\ \E result \in SourceResults(idx) :
        /\ result.kind # "raise" /\ ~TestRaises(result)
        /\ Accepted(result)
        /\ calls' = Append(calls, [src |-> idx, result |-> result])
        /\ price_data' = [price |-> result.price, source |-> result.source]
        /\ fetched' = <<result.price>>
    /\ ppc' = "history"
    /\ UNCHANGED <<fresh, idx, response, served, invocations, vars, snapshot, signalVars, newsVars, reportVars>>

\* One iteration: source_func() returns a result the test does not accept;
\* the loop goes to the next source.
SourceSkipped ==
    /\ ppc = "chain"
    /\ idx <= Len(sources)
    /\ \E result \in SourceResults(idx) :
        /\ result.kind # "raise" /\ ~TestRaises(result)
        /\ ~Accepted(result)
        /\ calls' = Append(calls, [src |-> idx, result |-> result])
    /\ idx' = idx + 1
    /\ UNCHANGED <<ppc, fresh, price_data, response, served, invocations, fetched, vars, snapshot, signalVars, newsVars, reportVars>>

\* Mutant of SourceFailed: no try around the call, the exception leaves
\* get_current_gold_price.
SourceFailedPropagates ==
    /\ ppc = "chain"
    /\ idx <= Len(sources)
    /\ \E result \in SourceResults(idx) :
        /\ result.kind = "raise" \/ TestRaises(result)
        /\ calls' = Append(calls, [src |-> idx, result |-> result])
    /\ ppc' = "raised"
    /\ UNCHANGED <<fresh, idx, price_data, response, served, invocations, fetched, vars, snapshot, signalVars, newsVars, reportVars>>

\* One iteration: source_func() or the test raises; except Exception: continue.
SourceFailed ==
    /\ ppc = "chain"
    /\ idx <= Len(sources)
    /\ \E result \in SourceResults(idx) :
        /\ result.kind = "raise" \/ TestRaises(result)
        /\ calls' = Append(calls, [src |-> idx, result |-> result])
    /\ idx' = idx + 1
    /\ UNCHANGED <<ppc, fresh, price_data, response, served, invocations, fetched, vars, snapshot, signalVars, newsVars, reportVars>>

\* The loop is over: return the ultimate fallback.
ReturnFallback ==
    /\ ppc = "chain"
    /\ idx > Len(sources)
    /\ price_data' = Fallback
    /\ ppc' = "history"
    /\ UNCHANGED <<fresh, idx, calls, response, served, invocations, fetched, vars, snapshot, signalVars, newsVars, reportVars>>

\* ---------------------------------------------------------- api_gold_price
\* yf.download for the change figures returns (rows or not): the response
\* carries price_data's price and source.  The change figures are left out.
\* The locals of the request end with it.
ApiGoldPriceResponds ==
    /\ ppc = "history"
    /\ response' = <<[success |-> TRUE, price |-> price_data.price,
                      source |-> price_data.source, is_cached |-> IsCached(price_data)]>>
    /\ served' = served + 1
    /\ ppc' = "idle"
    /\ idx' = 0 /\ calls' = <<>> /\ price_data' = [source |-> "(unbound)"]
    /\ UNCHANGED <<fresh, invocations, fetched, vars, snapshot, signalVars, newsVars, reportVars>>

\* yf.download or the change computation raises: the except clause answers
\* with the hard-coded record.
ApiGoldPriceError ==
    /\ ppc = "history"
    /\ response' = <<[success |-> TRUE, price |-> FallbackPrice,
                      source |-> "Cached (Error)", is_cached |-> TRUE]>>
    /\ served' = served + 1
    /\ ppc' = "idle"
    /\ idx' = 0 /\ calls' = <<>> /\ price_data' = [source |-> "(unbound)"]
    /\ UNCHANGED <<fresh, invocations, fetched, vars, snapshot, signalVars, newsVars, reportVars>>

PriceNext ==
    \/ ApiGoldPriceEnter
    \/ SourceAccepted
    \/ SourceSkipped
    \/ SourceFailed
    \/ ReturnFallback
    \/ ApiGoldPriceResponds
    \/ ApiGoldPriceError

PriceSpec == Init /\ [][PriceNext]_priceVars

\* -------------------------------------------------- get_technical_signals
\* The SMAs the model draws, in dollars: LowSma..HighSma.  The range holds
\* pairs more than 2 % apart, exactly 2 % apart and less than 2 % apart.
LowSma == 96
HighSma == 104

SmaValues == LowSma..HighSma

\* RSI = 100 - 100 / (1 + rs) with rs >= 0 lies in 0..100.
MaxRsi == 100

RsiValues == 0..MaxRsi

\* float('nan'): the value of a rolling mean over fewer rows than its window
\* (and of the RSI when gain and loss are both 0).  No SMA or RSI is negative.
NaN == -1

\* MAX_RETRIES
MAX_RETRIES == 3

\* a > b and a < b on floats: every comparison with NaN is False.
gt(a, b) == a # NaN /\ b # NaN /\ a > b
lt(a, b) == a # NaN /\ b # NaN /\ a < b

\* sma_diff_pct > t and sma_diff_pct < t for
\* sma_diff_pct = ((sma_10 - sma_50) / sma_50) * 100 and sma_50 > 0, in
\* integers: both sides multiplied by sma_50.  NaN if an SMA is NaN.
sma_diff_pct_gt(s10, s50, t) == s10 # NaN /\ s50 # NaN /\ (s10 - s50) * 100 > t * s50
sma_diff_pct_lt(s10, s50, t) == s10 # NaN /\ s50 # NaN /\ (s10 - s50) * 100 < t * s50

\* Mutant of Signal: the RSI overrides are tested before the crossover rules.
SignalRsiFirst(s10, s50, r) ==
    IF gt(r, 70) THEN "Sell"
    ELSE IF lt(r, 30) THEN "Buy"
    ELSE IF gt(s10, s50) /\ lt(r, 50)
        THEN IF sma_diff_pct_gt(s10, s50, 2) /\ lt(r, 40) THEN "Strong Buy" ELSE "Buy"
    ELSE IF lt(s10, s50) /\ gt(r, 50)
        THEN IF sma_diff_pct_lt(s10, s50, -2) /\ gt(r, 60) THEN "Strong Sell" ELSE "Sell"
    ELSE "Neutral"

\* Mutant of Signal: the second branch does not tell Strong Sell from Sell.
SignalSellOnly(s10, s50, r) ==
    IF gt(s10, s50) /\ lt(r, 50)
        THEN IF sma_diff_pct_gt(s10, s50, 2) /\ lt(r, 40) THEN "Strong Buy" ELSE "Buy"
    ELSE IF lt(s10, s50) /\ gt(r, 50) THEN "Sell"
    ELSE IF gt(r, 70) THEN "Sell"
    ELSE IF lt(r, 30) THEN "Buy"
    ELSE "Neutral"

\* Mutant of Signal: the crossover branches do not look at the RSI.
SignalSmaFirst(s10, s50, r) ==
    IF gt(s10, s50)
        THEN IF sma_diff_pct_gt(s10, s50, 2) /\ lt(r, 40) THEN "Strong Buy" ELSE "Buy"
    ELSE IF lt(s10, s50)
        THEN IF sma_diff_pct_lt(s10, s50, -2) /\ gt(r, 60) THEN "Strong Sell" ELSE "Sell"
    ELSE IF gt(r, 70) THEN "Sell"
    ELSE IF lt(r, 30) THEN "Buy"
    ELSE "Neutral"

\* The if / elif chain that determines signal.
Signal(s10, s50, r) ==
    IF gt(s10, s50) /\ lt(r, 50)
        THEN IF sma_diff_pct_gt(s10, s50, 2) /\ lt(r, 40) THEN "Strong Buy" ELSE "Buy"
    ELSE IF lt(s10, s50) /\ gt(r, 50)
        THEN IF sma_diff_pct_lt(s10, s50, -2) /\ gt(r, 60) THEN "Strong Sell" ELSE "Sell"
    ELSE IF gt(r, 70) THEN "Sell"
    ELSE IF lt(r, 30) THEN "Buy"
    ELSE "Neutral"

\* The branch of the if / elif chain that is taken: 1 for the if, 2, 3 and 4
\* for the elifs in their order, 5 for the else.
Branch(s10, s50, r) ==
    IF gt(s10, s50) /\ lt(r, 50) THEN 1
    ELSE IF lt(s10, s50) /\ gt(r, 50) THEN 2
    ELSE IF gt(r, 70) THEN 3
    ELSE IF lt(r, 30) THEN 4
    ELSE 5

\* A call of get_technical_signals is at the top of its loop, before the
\* first download.  sma_10, sma_50 and rsi are the latest indicators of the
\* data a download delivers when it delivers any: numbers, or NaN when the
\* series is shorter than the window (a series long enough for the 50-day
\* SMA is long enough for the 10-day one).
SignalInputs ==
    /\ sma_10 \in SmaValues \cup {NaN}
    /\ sma_50 \in SmaValues \cup {NaN}
    /\ sma_50 # NaN => sma_10 # NaN
    /\ rsi \in RsiValues \cup {NaN}
    /\ signal = None
    /\ attempt = 0
    /\ downloads = 0
    /\ returned = None

\* Mutant of Retry: the last attempt is retried like the others.
RetryAlways(a) == a < MAX_RETRIES

\* if attempt < MAX_RETRIES - 1
Retry(a) == a < MAX_RETRIES - 1

\* An attempt whose download gives an empty frame: sleep and continue, or
\* return the error string after the last attempt.  When continue ends the
\* range, the return after the loop is executed.
DownloadEmpty ==
    /\ returned = None
    /\ attempt < MAX_RETRIES
    /\ downloads' = downloads + 1
    /\ IF Retry(attempt)
          THEN /\ attempt' = attempt + 1
               /\ returned' = IF attempt + 1 < MAX_RETRIES THEN None ELSE "Failed to fetch"
          ELSE /\ returned' = "Error: No data available"
               /\ UNCHANGED attempt
    /\ UNCHANGED <<sma_10, sma_50, rsi, signal, vars, snapshot, priceVars, newsVars, reportVars>>

\* An attempt in which the download (or a statement after it) raises: the
\* except clause sleeps and continues, or returns the error string after the
\* last attempt.
DownloadRaises ==
    /\ returned = None
    /\ attempt < MAX_RETRIES
    /\ downloads' = downloads + 1
    /\ IF Retry(attempt)
          THEN /\ attempt' = attempt + 1
               /\ returned' = IF attempt + 1 < MAX_RETRIES THEN None ELSE "Failed to fetch"
          ELSE /\ returned' = "Error fetching technical analysis"
               /\ UNCHANGED attempt
    /\ UNCHANGED <<sma_10, sma_50, rsi, signal, vars, snapshot, priceVars, newsVars, reportVars>>

\* An attempt whose download gives data: the call determines the signal from
\* the latest indicators and returns the summary.
get_technical_signals ==
    /\ returned = None
    /\ attempt < MAX_RETRIES
    /\ downloads' = downloads + 1
    /\ signal' = Signal(sma_10, sma_50, rsi)
    /\ returned' = "summary"
    /\ UNCHANGED <<sma_10, sma_50, rsi, attempt, vars, snapshot, priceVars, newsVars, reportVars>>

SignalNext == DownloadEmpty \/ DownloadRaises \/ get_technical_signals

\* Nothing else of the application takes part in the call.
SignalStart == SignalInputs /\ StatusInit /\ PriceInit /\ NewsInit /\ ReportInit

SignalSpec == SignalStart /\ [][SignalNext]_signalVars

\* Every attempt ends: the download returns or raises, the sleep returns.
SignalFairSpec == SignalSpec /\ WF_signalVars(SignalNext)

\* ------------------------------------------------ scrape_fundamental_news
\* What one requests.get with the parsing that follows it can do: raise,
\* answer with a status other than 200, answer 200 with no title in the page,
\* answer 200 with titles.
FetchOutcomes == {"raise", "status", "no titles", "titles"}

\* Method 2, Gold.org: titles are appended; an exception appends an error line.
FetchGoldOrg ==
    /\ Len(fetches) = 0
    /\ \E o \in FetchOutcomes :
        /\ fetches' = Append(fetches, o)
        /\ headlines' = CASE o = "titles" -> Append(headlines, "[Gold.org] - title")
                          [] o = "raise" -> Append(headlines, "[Error] Could not fetch from Gold.org")
                          [] OTHER -> headlines
    /\ UNCHANGED <<news, vars, snapshot, priceVars, signalVars, reportVars>>

\* Method 3, Kitco: titles are appended; an exception appends an error line.
FetchKitco ==
    /\ Len(fetches) = 1
    /\ \E o \in FetchOutcomes :
        /\ fetches' = Append(fetches, o)
        /\ headlines' = CASE o = "titles" -> Append(headlines, "[Kitco] - title")
                          [] o = "raise" -> Append(headlines, "[Error] Could not fetch from Kitco")
                          [] OTHER -> headlines
    /\ UNCHANGED <<news, vars, snapshot, priceVars, signalVars, reportVars>>

\* Method 4, Investing.com: titles are appended; an exception is passed over.
FetchInvesting ==
    /\ Len(fetches) = 2
    /\ \E o \in FetchOutcomes :
        /\ fetches' = Append(fetches, o)
        /\ headlines' = IF o = "titles" THEN Append(headlines, "[Investing.com] - title")
                                        ELSE headlines
    /\ UNCHANGED <<news, vars, snapshot, priceVars, signalVars, reportVars>>

\* if headlines: return the formatted headlines, else the generic context.
ReturnNews ==
    /\ Len(fetches) = 3
    /\ news = <<>>
    /\ news' = IF headlines # <<>>
                  THEN <<[text |-> "headlines", lines |-> headlines]>>
                  ELSE <<[text |-> "Market Context", lines |-> <<>>]>>
    /\ UNCHANGED <<fetches, headlines, vars, snapshot, priceVars, signalVars, reportVars>>

NewsNext ==
    \/ FetchGoldOrg
    \/ FetchKitco
    \/ FetchInvesting
    \/ ReturnNews

NewsSpec == Init /\ [][NewsNext]_newsVars

\* -------------------------------------------------------------- reports/
\* One second passes.
Tick ==
    /\ now < MaxTime
    /\ now' = now + 1
    /\ UNCHANGED <<filename, reports, vars, snapshot, priceVars, signalVars, newsVars>>

\* A worker of the web application, its pipeline done, saves its report:
\* the name is made of datetime.now() in seconds and the file is opened
\* with 'w'.
WebSaveReport(k) ==
    /\ filename[k] = <<>>
    /\ filename' = [filename EXCEPT ![k] = <<now>>]
    /\ reports' = [reports EXCEPT ![now] = Append(@, [run |-> k, by |-> "app.py"])]
    /\ UNCHANGED <<now, vars, snapshot, priceVars, signalVars, newsVars>>

\* A run of main.py, its pipeline done, calls save_report(cleaned_result):
\* filename is None, the name is made of datetime.now() in seconds and the
\* file is opened with 'w'.
save_report(k) ==
    /\ filename[k] = <<>>
    /\ filename' = [filename EXCEPT ![k] = <<now>>]
    /\ reports' = [reports EXCEPT ![now] = Append(@, [run |-> k, by |-> "main.py"])]
    /\ UNCHANGED <<now, vars, snapshot, priceVars, signalVars, newsVars>>

ReportNext ==
    \/ Tick
    \/ \E k \in Savers : WebSaveReport(k)
    \/ \E k \in Savers : save_report(k)

ReportSpec == Init /\ [][ReportNext]_reportVars

\* ------------------------------------------------------------------ claims
\* C1: of two start requests that test the running flag in the same idle
\* period (no run was accepted between their tests), exactly one is accepted
\* and the other is rejected: they are never both answered 'Analysis started'.
C1_SingleFlight ==
    \A r1, r2 \in Requests :
        (r1 # r2 /\ resp[r1] = Started /\ resp[r2] = Started) => seen[r1] # seen[r2]

\* C2: every accepted run (the record was replaced for it) eventually finishes
\* its worker with running = false, whichever way the worker leaves its try
\* block.
C2_RunEndsNotRunning ==
    \A r \in Requests :
        (pc[r] = "reset") ~> (workers[r].pc = "done" /\ ~status.running)

\* A worker that left through the report-write exception has finished and the
\* record says not running.
C2_Witness ==
    \E w \in Requests :
        workers[w].pc = "done" /\ workers[w].e = WriteError /\ ~status.running

\* C3: once the pipeline of an accepted run has raised, the record eventually
\* shows running = false with error set and result unset.
C3_FailedRunReported ==
    \A w \in Requests :
        (workers[w].pc = "L274" /\ workers[w].e = PipelineError)
            ~> (~status.running /\ status.error # None /\ status.result = None)

\* C4: result and error are never both set.
C4_ResultErrorExclusive == ~(status.result # None /\ status.error # None)

\* C5: while running is true, result and error are both unset.
C5_RunningImpliesUnset ==
    status.running => (status.result = None /\ status.error = None)

\* C6: a worker whose pipeline succeeded and whose report write failed ends
\* its run with running = false, result = the pipeline's text, error unset.
C6_WriteFailureStillCompleted ==
    [][\A w \in Requests :
         (workers[w].pc # "done" /\ workers'[w].pc = "done" /\ workers[w].e = WriteError)
             => (/\ ~status'.running
                 /\ status'.result = workers[w].result
                 /\ status'.error = None)]_vars

\* C7: a request that tests the flag while running is true is answered
\* 'Analysis already running' and changes no field of the record and no worker.
C7_RejectedStartChangesNothing ==
    [][\A r \in Requests :
         (pc[r] = "idle" /\ status.running /\ pc'[r] # "idle")
             => (/\ resp'[r] = AlreadyRunning
                 /\ pc'[r] = "returned"
                 /\ status' = status
                 /\ workers' = workers
                 /\ runs' = runs)]_vars

\* A request was rejected while a worker holds the record running.
C7_Witness ==
    \E r, w \in Requests :
        resp[r] = AlreadyRunning /\ workers[r].pc = "unborn" /\ Alive(w) /\ status.running

\* C8: an accepted request replaces the record in one step by running = true,
\* progress = 0, result and error unset; its next step starts exactly one
\* worker (its own) and touches nothing else; its return is possible at once,
\* whatever the worker is doing, and answers 'Analysis started' whatever the
\* pipeline's outcome.
C8_AcceptedStart ==
    /\ [][\A r \in Requests :
            /\ (pc[r] = "checked" /\ pc'[r] # "checked")
                   => (/\ status'.running /\ status'.progress = 0
                       /\ status'.result = None /\ status'.error = None
                       /\ workers' = workers)
            /\ (pc[r] = "reset" /\ pc'[r] # "reset")
                   => (/\ workers[r].pc = "unborn" /\ workers'[r].pc = "L246"
                       /\ \A w \in Requests \ {r} : workers'[w] = workers[w]
                       /\ status' = status)
            /\ (pc[r] = "threadstarted" /\ pc'[r] # "threadstarted")
                   => (resp'[r] = Started /\ status' = status /\ workers' = workers)]_vars
    /\ [](\A r \in Requests :
            /\ pc[r] = "threadstarted" => ENABLED StartReturn(r)
            /\ (pc[r] = "returned" /\ workers[r].pc # "unborn") => resp[r] = Started)

\* The accept response has been returned while the worker has not yet executed
\* its first statement.
C8_Witness ==
    \E r \in Requests :
        pc[r] = "returned" /\ resp[r] = Started /\ workers[r].pc = "L246"

\* C9: at most one worker is alive.
C9_AtMostOneWorker == Cardinality({w \in Requests : Alive(w)}) <= 1

\* C10: a step that is not the acceptance of a start never lowers progress.
C10_ProgressMonotone ==
    [][runs' = runs => status'.progress >= status.progress]_vars

Completed(w) ==
    /\ ~status.running
    /\ status.progress = 100
    /\ status.result = ReportText(w)
    /\ status.error = None

\* C12: a worker whose pipeline and report write succeeded ends with the
\* record Completed, and the record stays so until a start is accepted.
C12_SuccessfulRunRecord ==
    [][\A w \in Requests :
         /\ (workers[w].pc = "L277" /\ workers'[w].pc = "done" /\ workers[w].e = None)
                => Completed(w)'
         /\ (workers[w].pc = "done" /\ workers[w].e = None /\ Completed(w) /\ runs' = runs)
                => Completed(w)']_vars

\* C13: a status read leaves the record as it is, and what it returns is never
\* a half-applied update: progress = 100 comes with result set, and error set
\* comes with running = false.
C13_ReadsAreConsistent ==
    /\ [][snapshot' # snapshot => status' = status]_<<vars, snapshot, signalVars, newsVars, reportVars>>
    /\ [](\A i \in 1..Len(snapshot) :
            /\ snapshot[i].progress = 100 => snapshot[i].result # None
            /\ snapshot[i].error # None => ~snapshot[i].running)

\* A call result that counts as a success: a record with a price above 0.
Valid(result) == result.kind = "dict" /\ result.has_price /\ result.price > 0

\* Every source was called and none succeeded.
AllFailed ==
    Len(calls) = Len(sources) /\ \A k \in 1..Len(calls) : ~Valid(calls[k].result)

\* C14: the sources are called one at a time in list order; a call that gives
\* None, a non-positive price, a record without price or an exception is
\* skipped; the first valid result is returned as it is and no later source
\* is called.
C14_FirstSuccessWins ==
    /\ Len(calls) <= Len(sources)
    /\ \A k \in 1..Len(calls) :
        /\ calls[k].src = k
        /\ k < Len(calls) => ~Valid(calls[k].result)
    /\ ppc = "chain" => (idx = Len(calls) + 1 /\ \A k \in 1..Len(calls) : ~Valid(calls[k].result))
    /\ ppc = "history" =>
        \/ /\ Len(calls) >= 1
           /\ Valid(calls[Len(calls)].result)
           /\ price_data = [price |-> calls[Len(calls)].result.price,
                            source |-> sources[Len(calls)]]
        \/ AllFailed /\ price_data.source \notin {sources[k] : k \in 1..Len(sources)}

\* The third source was returned after a None and a zero price were skipped.
C14_Witness ==
    /\ ppc = "history" /\ Len(calls) = 3
    /\ calls[1].result.kind = "None"
    /\ calls[2].result.kind = "dict" /\ calls[2].result.has_price /\ calls[2].result.price = 0
    /\ price_data.source = sources[3]

\* C15: whatever the sources do, no exception leaves get_current_gold_price
\* and the record it returns has a positive price.
C15_AlwaysAPositivePrice ==
    /\ ppc # "raised"
    /\ ppc = "history" => price_data.price > 0

\* All five kinds of failure happened in one invocation, which returned.
C15_Witness ==
    /\ ppc = "history" /\ Len(calls) = 5
    /\ calls[1].result.kind = "raise"
    /\ calls[2].result.kind = "dict" /\ ~calls[2].result.has_price
    /\ calls[3].result.kind = "None"
    /\ calls[4].result.kind = "dict" /\ calls[4].result.has_price /\ calls[4].result.price = 0
    /\ calls[5].result.kind = "dict" /\ calls[5].result.has_price /\ calls[5].result.price < 0
    /\ price_data.price > 0

\* C16: the returned record is marked is_cached (and is the fallback constant)
\* exactly when every source failed; otherwise it has the price and the source
\* of the source that succeeded and is not marked.
C16_StaleExactlyWhenAllFailed ==
    ppc = "history" =>
        /\ IsCached(price_data) <=> AllFailed
        /\ AllFailed => price_data.price = FallbackPrice
        /\ ~AllFailed =>
              \E k \in 1..Len(calls) :
                  /\ Valid(calls[k].result)
                  /\ price_data.price = calls[k].result.price
                  /\ price_data.source = sources[k]

\* Every source failed and the marked fallback was returned.
C16_Witness == ppc = "history" /\ AllFailed /\ IsCached(price_data)

C20_SignalIsFirstMatchingRule ==
    (signal # None /\ sma_10 # NaN /\ sma_50 # NaN /\ rsi # NaN) =>
        LET pct100 == (sma_10 - sma_50) * 100
            rules ==
                <<[when |-> sma_10 > sma_50 /\ rsi < 50,
                   then |-> IF pct100 > 2 * sma_50 /\ rsi < 40 THEN "Strong Buy" ELSE "Buy"],
                  [when |-> sma_10 < sma_50 /\ rsi > 50,
                   then |-> IF pct100 < (-2) * sma_50 /\ rsi > 60 THEN "Strong Sell" ELSE "Sell"],
                  [when |-> rsi > 70, then |-> "Sell"],
                  [when |-> rsi < 30, then |-> "Buy"],
                  [when |-> TRUE, then |-> "Neutral"]>>
            first == CHOOSE i \in 1..Len(rules) :
                        rules[i].when /\ \A j \in 1..(i - 1) : ~rules[j].when
        IN  /\ sma_50 > 0
            /\ signal = rules[first].then
            /\ signal \in {"Strong Buy", "Buy", "Neutral", "Sell", "Strong Sell"}

\* An upward crossover with an overbought RSI: the third rule decides, after
\* the first two did not match.
C20_Witness == signal = "Sell" /\ sma_10 > sma_50 /\ rsi > 70

\* The call returned a summary computed from three defined indicators.
Classified == returned = "summary" /\ sma_10 # NaN /\ sma_50 # NaN /\ rsi # NaN

\* C21 as stated: with rsi14 > 70 and sma10 < sma50 the signal is Sell and
\* it is the third rule (the overbought override) that decides.
C21_OverboughtBearishBySellOverride ==
    (Classified /\ rsi > 70 /\ sma_10 < sma_50) =>
        (signal = "Sell" /\ Branch(sma_10, sma_50, rsi) = 3)

\* C21 amended: with rsi14 > 70 and sma10 < sma50 the second rule decides:
\* Strong Sell when sma10 is more than 2 % below sma50, Sell otherwise.
C21_OverboughtBearishBySecondRule ==
    (Classified /\ rsi > 70 /\ sma_10 < sma_50) =>
        /\ Branch(sma_10, sma_50, rsi) = 2
        /\ signal = IF (sma_10 - sma_50) * 100 < (-2) * sma_50
                       THEN "Strong Sell" ELSE "Sell"

\* Overbought RSI, 10-day SMA more than 2 % below the 50-day SMA.
C21_Witness ==
    /\ Classified /\ rsi > 70 /\ sma_10 < sma_50
    /\ (sma_10 - sma_50) * 100 < (-2) * sma_50
    /\ signal = "Strong Sell"

\* C22: when sma10, sma50 or rsi14 is undefined, the call determines no
\* signal.
C22_UndefinedIndicatorNoSignal ==
    (sma_10 = NaN \/ sma_50 = NaN \/ rsi = NaN) => signal = None

\* C26 as stated: there are inputs for which the first or the second rule
\* matches and an RSI override of the opposite sign decides (the third rule,
\* Sell, against the first; the fourth rule, Buy, against the second): the
\* inputs of this call or any others.
C26_OverrideBeatsMatchingSmaRule ==
    \E s10 \in SmaValues \cup {sma_10}, s50 \in SmaValues \cup {sma_50},
       r \in RsiValues \cup {rsi} :
        \/ s10 > s50 /\ r < 50 /\ Branch(s10, s50, r) = 3
        \/ s10 < s50 /\ r > 50 /\ Branch(s10, s50, r) = 4

\* C26 amended: a first or second rule that matches decides the signal, and
\* an override decides only when neither matches; that includes an SMA
\* direction opposite to the override (sma10 > sma50 with rsi14 > 70 is Sell,
\* sma10 < sma50 with rsi14 < 30 is Buy).
C26_MatchingSmaRuleDecides ==
    Classified =>
        LET pct100 == (sma_10 - sma_50) * 100
            rule1 == sma_10 > sma_50 /\ rsi < 50
            rule2 == sma_10 < sma_50 /\ rsi > 50
        IN  /\ rule1 => /\ Branch(sma_10, sma_50, rsi) = 1
                        /\ signal = IF pct100 > 2 * sma_50 /\ rsi < 40
                                       THEN "Strong Buy" ELSE "Buy"
            /\ rule2 => /\ Branch(sma_10, sma_50, rsi) = 2
                        /\ signal = IF pct100 < (-2) * sma_50 /\ rsi > 60
                                       THEN "Strong Sell" ELSE "Sell"
            /\ Branch(sma_10, sma_50, rsi) \in {3, 4} => (~rule1 /\ ~rule2)
            /\ (sma_10 > sma_50 /\ rsi > 70) => signal = "Sell"
            /\ (sma_10 < sma_50 /\ rsi < 30) => signal = "Buy"

\* A downward crossover with an oversold RSI: the fourth rule gives Buy.
C26_Witness == Classified /\ sma_10 < sma_50 /\ rsi < 30 /\ signal = "Buy"

\* C27: a call makes at most MAX_RETRIES downloads; it returns the summary of
\* the first attempt that gives data; after MAX_RETRIES failed attempts it
\* returns one of the two error strings; it does nothing after it returned,
\* never returns 'Failed to fetch technical analysis data.', and returns.
C27_AtMostThreeAttempts ==
    /\ [](/\ downloads <= MAX_RETRIES
          /\ returned # "Failed to fetch"
          /\ returned = None => (downloads = attempt /\ signal = None)
          /\ returned = "summary" => (downloads = attempt + 1 /\ signal # None)
          /\ returned \in {"Error: No data available", "Error fetching technical analysis"}
                => (downloads = MAX_RETRIES /\ signal = None))
    /\ [][returned = None /\ downloads' = downloads + 1]_signalVars
    /\ <>(returned # None)

\* Three attempts failed, the last one with an exception.
C27_Witness == returned = "Error fetching technical analysis" /\ downloads = 3

\* Every news source failed: it raised or answered with a status other than 200.
AllNewsFailed ==
    Len(fetches) = 3 /\ \A i \in 1..3 : fetches[i] \in {"raise", "status"}

\* C23: scrape_fundamental_news returns (it does not raise), and when every
\* news source failed what it returns is the generic market-context text.
C23_AllFailedGivesFallbackText ==
    (news # <<>> /\ AllNewsFailed) => news[1].text = "Market Context"

\* C25: no two runs that saved a report wrote to the same file name.
C25_OneFilePerRun ==
    \A k1, k2 \in Savers :
        (k1 # k2 /\ filename[k1] # <<>> /\ filename[k2] # <<>>)
            => filename[k1] # filename[k2]

\* C24: the sources are tried in the order GoldAPI, Investing.com, Kitco,
\* Metals-API, Yahoo Finance: the k-th call is of the k-th of them, so a
\* record of a later source is returned only after GoldAPI was called and
\* failed.
C24_GoldApiFirst ==
    LET order == <<"GoldAPI", "Investing.com", "Kitco (scraped)", "MetalsAPI",
                   "Yahoo Finance (Futures)">>
    IN  /\ \A k \in 1..Len(calls) : sources[calls[k].src] = order[k]
        /\ (ppc = "history" /\ price_data.source \in {order[k] : k \in 2..5})
              => \E k \in 1..Len(calls) :
                    sources[calls[k].src] = "GoldAPI" /\ ~Valid(calls[k].result)

\* C28: running goes from false to true only in the step that accepts a start
\* (the record is replaced); and after a read reported the record with
\* running = false, running, result and error keep the reported values in
\* every step that is not the acceptance of a start.
C28_IdleUntilNextStart ==
    /\ [][(~status.running /\ status'.running) => runs' = runs + 1]_<<vars, snapshot>>
    /\ [][(snapshot # <<>> /\ snapshot = <<status>> /\ ~status.running /\ runs' = runs)
             => /\ ~status'.running
                /\ status'.result = status.result
                /\ status'.error = status.error]_<<vars, snapshot>>

\* C29: when a source delivered the price, the response carries that price
\* and source with is_cached false, however the download of the history
\* ends; 'Cached (Error)' is answered only when no source delivered a price.
C29_ProviderPriceIsReported ==
    [][(ppc = "history" /\ ppc' = "idle")
          => /\ ~AllFailed => /\ response'[1].price = price_data.price
                              /\ response'[1].source = price_data.source
                              /\ ~response'[1].is_cached
             /\ response'[1].source = "Cached (Error)" => AllFailed]_priceVars

====
